---- MODULE Spec2Model ----
(***************************************************************************)
(* Model of the Stoffel command-line tool (src/src/main.rs, init.rs):      *)
(*   - the MPC parameter validator and threshold calculation used by the   *)
(*     dev, test and run commands;                                         *)
(*   - the compile command: option check, compiler lookup, single-file     *)
(*     and batch compilation through an external compiler process;         *)
(*   - the init command: the config it builds, the manifest and the        *)
(*     files it scaffolds, step by step.                                   *)
(***************************************************************************)
EXTENDS Integers, Sequences, FiniteSets, TLC

\* ------------------------------------------------------------------------
\* Option<T> is modelled as a sequence of length 0 (None) or 1 (Some(x)).
None == <<>>
Some(x) == <<x>>
IsSome(o) == Len(o) = 1
Unwrap(o) == o[1]

\* u8: values 0 .. U8Modulus - 1
U8Modulus == 256
U8 == 0 .. (U8Modulus - 1)

VARIABLES
    \* ---- process-wide
    cmd,              \* the subcommand being run ("none" before dispatch)
    pc,               \* position of the process inside main()
    exit_code,        \* None while running, Some(code) once the process ended
    overflow_checks,  \* build profile: TRUE = arithmetic overflow panics (debug),
                      \*                FALSE = overflow wraps (release)
    \* ---- dev / test / run arguments and locals
    parties,          \* --parties (u8)
    threshold_arg,    \* --threshold (Option<u8>)
    threshold,        \* the local `threshold` after unwrap_or_else (Option: None until bound)
    validation,       \* result of validate_mpc_params ([kind, max])
    \* ---- compile arguments (Commands::Compile fields)
    file,             \* Option<String>: the file to compile, None = batch mode
    output,           \* Option<String>: -o
    binary,           \* --binary
    disassemble,      \* --disassemble
    print_ir,         \* --print-ir
    opt_level,        \* -O (u8)
    \* ---- what the compile run has learnt from its environment
    exe_located,      \* Option<bool>: outcome of current_exe()/parent() resolution
    compiler_exists,  \* Option<bool>: outcome of compiler_path.exists()
    src_checked,      \* Option<bool>: outcome of Path::new("src").exists()
    src_read,         \* Option<bool>: whether find_stfl_files("src") returned Ok
    fs,               \* files below src/ (each a sequence of path components)
    \* ---- compile locals
    stfl_files,       \* Vec<String> returned by find_stfl_files
    idx,              \* position of the batch loop in stfl_files (1-based)
    successful,       \* counter
    failed,           \* counter
    \* ---- observable effects of the compile run
    invocations,      \* compiler invocations attempted so far, in order:
                      \* [src, args, status], status in running/ok/fail/spawn_error
    warnings,         \* number of "Custom output path ignored" warnings printed
    reported,         \* Option<[successful, failed, total]>: the printed summary
    \* ---- init options (InitOptions fields)
    lib,              \* --lib
    interactive,      \* -i
    template,         \* Option<String>: -t
    \* ---- the project directory before the run
    existing,         \* the files it already holds (paths relative to it)
    \* ---- what the interactive run has asked and read
    prompts,          \* the prompts printed so far, in order
    answers,          \* Option<[name, description, author, parties, field, choice]>:
                      \* the trimmed lines entered, "" = Enter alone
    \* ---- init locals
    config,           \* Option<StoffelConfig>: the config, once built
    plan,             \* the file-system operations of create_project_structure, in order
    step,             \* the next operation of plan (1-based)
    \* ---- observable effects of the init run
    fs_ops,           \* the file-system operations that succeeded, in order
    init_result,      \* Option<String>: "Ok", or the error initialize_project returned
    \* ---- one call of substitute_template_vars
    template_content, \* its argument template_content
    subst_config,     \* its argument config
    subst_result      \* Option<String>: the text it returned

mpc_vars == <<parties, threshold_arg, threshold, validation>>
compile_args == <<file, output, binary, disassemble, print_ir, opt_level>>
compile_env == <<exe_located, compiler_exists, src_checked, src_read, fs>>
compile_locals == <<stfl_files, idx, successful, failed>>
compile_effects == <<invocations, warnings, reported>>
compile_vars == <<compile_args, compile_env, compile_locals, compile_effects>>
subst_vars == <<template_content, subst_config, subst_result>>
init_vars == <<lib, interactive, template, existing, prompts, answers, config, plan, step,
               fs_ops, init_result>>

\* ------------------------------------------------------------------------
\* MpcProtocol has the single variant Honeybadger.
MpcProtocol == {"Honeybadger"}

\* Mutant: the small-party case is not singled out.
calculate_threshold_FloorOnly(p, protocol) ==
    IF p = 0 THEN 0 ELSE (p - 1) \div 3

\* calculate_threshold(parties, protocol)
calculate_threshold(p, protocol) ==
    IF p < 5 THEN 1 ELSE (p - 1) \div 3

\* u8 addition `a + b`: [panic |-> TRUE] when the sum overflows in a build with
\* overflow checks, the wrapped sum otherwise.
AddU8(a, b, checks) ==
    IF a + b >= U8Modulus /\ checks
    THEN [panic |-> TRUE, val |-> 0]
    ELSE [panic |-> FALSE, val |-> (a + b) % U8Modulus]

\* u8 subtraction `a - b`
SubU8(a, b, checks) ==
    IF a - b < 0 /\ checks
    THEN [panic |-> TRUE, val |-> 0]
    ELSE [panic |-> FALSE, val |-> (a - b + U8Modulus) % U8Modulus]

NoValidation == [kind |-> "NotRun", max |-> 0]
ValidationOk == [kind |-> "Ok", max |-> 0]
ValidationPanic == [kind |-> "Panic", max |-> 0]
InvalidPartyCount == [kind |-> "InvalidPartyCount", max |-> 0]
InvalidThreshold(m) == [kind |-> "InvalidThreshold", max |-> m]

\* Mutant: the threshold rule is tested before the party-count rule.
validate_mpc_params_ThresholdFirst(p, t, protocol, checks) ==
    LET sum == AddU8(p, 2, checks) IN
    IF sum.panic THEN ValidationPanic
    ELSE LET lim == sum.val \div 3
             m == SubU8(lim, 1, checks) IN
         IF t >= lim
         THEN (IF m.panic THEN ValidationPanic ELSE InvalidThreshold(m.val))
         ELSE IF p < 5 THEN InvalidPartyCount ELSE ValidationOk

\* Mutant: the limit is ceil((parties + 1) / 3).
validate_mpc_params_CeilOfSuccessor(p, t, protocol, checks) ==
    IF p < 5 THEN InvalidPartyCount
    ELSE LET sum == AddU8(p, 3, checks) IN
         IF sum.panic THEN ValidationPanic
         ELSE LET lim == sum.val \div 3
                  m == SubU8(lim, 1, checks) IN
              IF t >= lim
              THEN (IF m.panic THEN ValidationPanic ELSE InvalidThreshold(m.val))
              ELSE ValidationOk

\* Mutant: the threshold comparison is `>` instead of `>=`.
validate_mpc_params_OffByOne(p, t, protocol, checks) ==
    IF p < 5 THEN InvalidPartyCount
    ELSE LET sum == AddU8(p, 2, checks) IN
         IF sum.panic THEN ValidationPanic
         ELSE LET lim == sum.val \div 3
                  m == SubU8(lim, 1, checks) IN
              IF t > lim
              THEN (IF m.panic THEN ValidationPanic ELSE InvalidThreshold(m.val))
              ELSE ValidationOk

\* validate_mpc_params(parties, threshold, protocol): the Result it returns, or
\* the panic of an overflowing u8 operation.
validate_mpc_params(p, t, protocol, checks) ==
    IF p < 5 THEN InvalidPartyCount
    ELSE LET sum == AddU8(p, 2, checks) IN
         IF sum.panic THEN ValidationPanic
         ELSE LET lim == sum.val \div 3
                  m == SubU8(lim, 1, checks) IN
              IF t >= lim
              THEN (IF m.panic THEN ValidationPanic ELSE InvalidThreshold(m.val))
              ELSE ValidationOk

\* Exit code of the process for a handler that ends with `validation`:
\* Ok(()) from main is 0, Err(String) from main is 1, a panic is 101.
ExitCodeOf(v) ==
    CASE v.kind = "Ok" -> 0
      [] v.kind = "Panic" -> 101
      [] OTHER -> 1

\* The body shared by Commands::Dev, Commands::Test and Commands::Run:
\*   let threshold = threshold.unwrap_or_else(|| calculate_threshold(parties, &protocol));
\*   validate_mpc_params(parties, threshold, &protocol)?;
MpcCommand(name) ==
    /\ pc = "start"
    /\ cmd = "none"
    /\ LET t == IF IsSome(threshold_arg)
                THEN Unwrap(threshold_arg)
                ELSE calculate_threshold(parties, "Honeybadger")
           v == validate_mpc_params(parties, t, "Honeybadger", overflow_checks)
       IN /\ threshold' = Some(t)
          /\ validation' = v
          /\ exit_code' = Some(ExitCodeOf(v))
    /\ cmd' = name
    /\ pc' = "done"
    /\ UNCHANGED <<overflow_checks, parties, threshold_arg, compile_vars, init_vars,
                   subst_vars>>

Dev == MpcCommand("dev")
Test == MpcCommand("test")
Run == MpcCommand("run")

vars == <<cmd, pc, exit_code, overflow_checks, mpc_vars, compile_vars, init_vars, subst_vars>>

\* No call of substitute_template_vars is being looked at.
SubstIdle == template_content = <<>> /\ subst_config = <<>> /\ subst_result = <<>>

\* The compile variables of a process that is not running `compile`.
CompileIdle ==
    /\ file = None /\ output = None
    /\ binary = FALSE /\ disassemble = FALSE /\ print_ir = FALSE
    /\ opt_level = 0
    /\ exe_located = None /\ compiler_exists = None /\ src_checked = None
    /\ src_read = None
    /\ fs = {}
    /\ stfl_files = <<>> /\ idx = 1 /\ successful = 0 /\ failed = 0
    /\ invocations = <<>> /\ warnings = 0 /\ reported = None

\* The init variables of a process that is not running `init`.
InitIdle ==
    /\ lib = FALSE /\ interactive = FALSE /\ template = None /\ answers = None
    /\ existing = {} /\ prompts = <<>>
    /\ config = None /\ plan = <<>> /\ step = 1
    /\ fs_ops = <<>> /\ init_result = None

InitMpc ==
    /\ cmd = "none"
    /\ pc = "start"
    /\ exit_code = None
    /\ overflow_checks \in BOOLEAN
    /\ parties \in U8
    /\ threshold_arg \in {None} \cup {Some(t) : t \in U8}
    /\ threshold = None
    /\ validation = NoValidation
    /\ CompileIdle
    /\ InitIdle
    /\ SubstIdle

NextMpc == Dev \/ Test \/ Run

SpecMpc == InitMpc /\ [][NextMpc]_vars

\* ------------------------------------------------------------------------
\* Strings that are compared are modelled as sequences of bytes (String's Ord
\* is the lexicographic order of its bytes).
B_src == <<115, 114, 99>>                        \* "src"
B_slash == <<47>>                                \* "/"
B_stfl == <<115, 116, 102, 108>>                 \* "stfl"
B_a_stfl == <<97, 46, 115, 116, 102, 108>>       \* "a.stfl"
B_b_stfl == <<98, 46, 115, 116, 102, 108>>       \* "b.stfl"
B_Z_stfl == <<90, 46, 115, 116, 102, 108>>       \* "Z.stfl"
B_a == <<97>>                                    \* "a" (a directory)
B_b_txt == <<98, 46, 116, 120, 116>>             \* "b.txt"
B_dot_stfl == <<46, 115, 116, 102, 108>>         \* ".stfl" (a hidden file)
B_main_stfl == <<109, 97, 105, 110, 46, 115, 116, 102, 108>>  \* "main.stfl"
B_out_bin == <<111, 117, 116, 46, 98, 105, 110>> \* "out.bin"

\* a < b for Strings
RECURSIVE StrLess(_, _)
StrLess(a, b) ==
    IF a = <<>> THEN b # <<>>
    ELSE IF b = <<>> THEN FALSE
    ELSE IF a[1] < b[1] THEN TRUE
    ELSE IF a[1] > b[1] THEN FALSE
    ELSE StrLess(Tail(a), Tail(b))

\* Vec<String>::sort(): the ascending arrangement of the elements.
RECURSIVE SortInsert(_, _)
SortInsert(x, s) ==
    IF s = <<>> THEN <<x>>
    ELSE IF StrLess(x, s[1]) THEN <<x>> \o s
    ELSE <<s[1]>> \o SortInsert(x, Tail(s))

RECURSIVE SortStrings(_)
SortStrings(s) ==
    IF s = <<>> THEN <<>> ELSE SortInsert(s[1], SortStrings(Tail(s)))

\* Path::extension() of a file name: the part after the last '.', None when
\* there is no '.', or when the only '.' is the first byte.
LastDot(name) ==
    LET dots == {i \in 1 .. Len(name) : name[i] = 46} IN
    IF dots = {} THEN 0 ELSE CHOOSE i \in dots : \A j \in dots : j <= i

Extension(name) ==
    IF LastDot(name) <= 1 THEN None
    ELSE Some(SubSeq(name, LastDot(name) + 1, Len(name)))

\* The string of the path src/<c1>/<c2>/... (Path::join, to_string_lossy)
RECURSIVE JoinPath(_, _)
JoinPath(base, comps) ==
    IF comps = <<>> THEN base
    ELSE JoinPath(base \o B_slash \o comps[1], Tail(comps))

PathString(comps) == JoinPath(B_src, comps)

\* The file system below src/: a set of files, each the sequence of its path
\* components relative to src/. A directory is a proper prefix of a file.
HasPrefix(f, dir) == Len(f) > Len(dir) /\ SubSeq(f, 1, Len(dir)) = dir
IsDir(path, files) == \E f \in files : HasPrefix(f, path)
DirEntries(dir, files) == {f[Len(dir) + 1] : f \in {g \in files : HasPrefix(g, dir)}}

\* Every order in which read_dir may yield the entries of a directory.
Enumerations(S) ==
    {e \in [1 .. Cardinality(S) -> S] : \A i, j \in 1 .. Cardinality(S) : e[i] = e[j] => i = j}

\* find_stfl_files_recursive(dir, files): the set of sequences it can append to
\* `files`, one for each order in which the directories are enumerated.
RECURSIVE WalkDir(_, _), WalkEntries(_, _, _, _)
WalkDir(dir, files) ==
    UNION {WalkEntries(dir, files, e, 1) : e \in Enumerations(DirEntries(dir, files))}

WalkEntries(dir, files, e, i) ==
    IF i > Len(e) THEN {<<>>}
    ELSE LET path == dir \o <<e[i]>>
             here == IF IsDir(path, files) THEN WalkDir(path, files)
                     ELSE IF Extension(e[i]) = Some(B_stfl) THEN {<<PathString(path)>>}
                     ELSE {<<>>}
         IN {x \o y : x \in here, y \in WalkEntries(dir, files, e, i + 1)}

\* Mutant: the list is returned in enumeration order, without the sort.
find_stfl_files_NoSort(walked) == walked

\* find_stfl_files(dir): `walked` is what the recursive walk collected.
find_stfl_files(walked) == SortStrings(walked)

\* One argument of the compiler's command line.
ArgPath(p) == [tag |-> "path", path |-> p, level |-> 0]
ArgFlag(f) == [tag |-> f, path |-> <<>>, level |-> 0]
ArgOpt(n) == [tag |-> "-O", path |-> <<>>, level |-> n]   \* format!("-O{}", opt_level)

\* Mutant: the level test is `>= 0`, so -O0 is passed at level 0.
CompilerArgs_LevelZero(f, out, b, d, p, lvl) ==
    <<ArgPath(f)>>
    \o (IF IsSome(out) THEN <<ArgFlag("-o"), ArgPath(Unwrap(out))>> ELSE <<>>)
    \o (IF b THEN <<ArgFlag("--binary")>> ELSE <<>>)
    \o (IF d THEN <<ArgFlag("--disassemble")>> ELSE <<>>)
    \o (IF p THEN <<ArgFlag("--print-ir")>> ELSE <<>>)
    \o (IF lvl >= 0 THEN <<ArgOpt(lvl)>> ELSE <<>>)

\* compile_single_file: the argument vector it builds.
CompilerArgs(f, out, b, d, p, lvl) ==
    <<ArgPath(f)>>
    \o (IF IsSome(out) THEN <<ArgFlag("-o"), ArgPath(Unwrap(out))>> ELSE <<>>)
    \o (IF b THEN <<ArgFlag("--binary")>> ELSE <<>>)
    \o (IF d THEN <<ArgFlag("--disassemble")>> ELSE <<>>)
    \o (IF p THEN <<ArgFlag("--print-ir")>> ELSE <<>>)
    \o (IF lvl > 0 THEN <<ArgOpt(lvl)>> ELSE <<>>)

\* Mutant: the caller's output path is handed to every file of a batch.
FileOutput_Always(out, n) == out

\* The batch loop's `file_output` for a batch of n files.
FileOutput(out, n) == IF IsSome(out) /\ n > 1 THEN None ELSE out

\* ------------------------------------------------------------------------
\* Commands::Compile

\* Bounds of the explored inputs.
MaxOptLevel == 5      \* opt_level ranges over 0 .. MaxOptLevel
MaxFiles == 3         \* at most MaxFiles .stfl files below src/

\* A file name that ends in ".stfl" and has a non-empty stem.
IsStflName(name) ==
    /\ Len(name) > 5
    /\ SubSeq(name, Len(name) - 4, Len(name)) = <<46>> \o B_stfl

\* The .stfl files of a tree.
StflFilesOf(files) == {f \in files : IsStflName(f[Len(f)])}

\* The files that may exist below src/.
FileUniverse ==
    { <<B_a_stfl>>, <<B_b_stfl>>, <<B_Z_stfl>>, <<B_a, B_b_stfl>>,
      <<B_b_txt>>, <<B_a, B_dot_stfl>> }

Trees == {t \in SUBSET FileUniverse : Cardinality(StflFilesOf(t)) <= MaxFiles}

\* std::process::exit(code), or main returning (Ok: 0, Err: 1).
Exit(code) == pc' = "done" /\ exit_code' = Some(code)

\* Mutant: the level check accepts level 4.
CheckOptLevel_OffByOne ==
    /\ pc = "start"
    /\ cmd = "none"
    /\ cmd' = "compile"
    /\ IF opt_level > 4
       THEN Exit(1)
       ELSE pc' = "locate" /\ UNCHANGED exit_code
    /\ UNCHANGED <<overflow_checks, mpc_vars, compile_vars, init_vars, subst_vars>>

\* if opt_level > 3 { eprintln!(..); std::process::exit(1); }
CheckOptLevel ==
    /\ pc = "start"
    /\ cmd = "none"
    /\ cmd' = "compile"
    /\ IF opt_level > 3
       THEN Exit(1)
       ELSE pc' = "locate" /\ UNCHANGED exit_code
    /\ UNCHANGED <<overflow_checks, mpc_vars, compile_vars, init_vars, subst_vars>>

\* current_exe()?, exe_path.parent()?, three more parents: any of them may
\* fail, and `?` then returns Err from main.
LocateCompiler ==
    /\ pc = "locate"
    /\ \E ok \in BOOLEAN :
         /\ exe_located' = Some(ok)
         /\ IF ok THEN pc' = "check_exists" /\ UNCHANGED exit_code ELSE Exit(1)
    /\ UNCHANGED <<cmd, overflow_checks, mpc_vars, init_vars, subst_vars, compile_args,
                   compiler_exists,
                   src_checked, src_read, fs, compile_locals, compile_effects>>

\* Mutant: a missing compiler is reported but the run goes on.
CheckCompilerExists_NoExit ==
    /\ pc = "check_exists"
    /\ \E found \in BOOLEAN :
         /\ compiler_exists' = Some(found)
         /\ pc' = IF IsSome(file) THEN "single" ELSE "batch"
         /\ UNCHANGED exit_code
    /\ UNCHANGED <<cmd, overflow_checks, mpc_vars, init_vars, subst_vars, compile_args,
                   exe_located,
                   src_checked, src_read, fs, compile_locals, compile_effects>>

\* if !compiler_path.exists() { eprintln!(..); std::process::exit(1); }
\* then `match file`.
CheckCompilerExists ==
    /\ pc = "check_exists"
    /\ \E found \in BOOLEAN :
         /\ compiler_exists' = Some(found)
         /\ IF found
            THEN /\ pc' = IF IsSome(file) THEN "single" ELSE "batch"
                 /\ UNCHANGED exit_code
            ELSE Exit(1)
    /\ UNCHANGED <<cmd, overflow_checks, mpc_vars, init_vars, subst_vars, compile_args,
                   exe_located,
                   src_checked, src_read, fs, compile_locals, compile_effects>>

\* A compiler invocation: the source file, the argument vector, and its status.
Invocation(src, args, status) == [src |-> src, args |-> args, status |-> status]

\* The last invocation ends with `status`.
Finish(invs, status) == [invs EXCEPT ![Len(invs)].status = status]

\* Some(specific_file): compile_single_file(...) up to Command::output()
\* starting the subprocess; a failure to start it is Err, returned by `?`.
SingleSpawn ==
    /\ pc = "single"
    /\ LET args == CompilerArgs(Unwrap(file), output, binary, disassemble, print_ir, opt_level) IN
       \E started \in BOOLEAN :
         IF started
         THEN /\ invocations' = Append(invocations, Invocation(Unwrap(file), args, "running"))
              /\ pc' = "single_wait"
              /\ UNCHANGED exit_code
         ELSE /\ invocations' = Append(invocations, Invocation(Unwrap(file), args, "spawn_error"))
              /\ Exit(1)
    /\ UNCHANGED <<cmd, overflow_checks, mpc_vars, init_vars, subst_vars, compile_args,
                   compile_env,
                   compile_locals, warnings, reported>>

\* Mutant: the subprocess's exit status is ignored.
SingleExit_IgnoreStatus ==
    /\ pc = "single_wait"
    /\ \E success \in BOOLEAN :
         /\ invocations' = Finish(invocations, IF success THEN "ok" ELSE "fail")
         /\ Exit(0)
    /\ UNCHANGED <<cmd, overflow_checks, mpc_vars, init_vars, subst_vars, compile_args,
                   compile_env,
                   compile_locals, warnings, reported>>

\* Command::output() returns with the subprocess's exit status;
\* if !success { std::process::exit(1); }, else main returns Ok(()).
SingleExit ==
    /\ pc = "single_wait"
    /\ \E success \in BOOLEAN :
         /\ invocations' = Finish(invocations, IF success THEN "ok" ELSE "fail")
         /\ Exit(IF success THEN 0 ELSE 1)
    /\ UNCHANGED <<cmd, overflow_checks, mpc_vars, init_vars, subst_vars, compile_args,
                   compile_env,
                   compile_locals, warnings, reported>>

\* None: if !Path::new("src").exists() { ...; std::process::exit(1); }
CheckSrcDir ==
    /\ pc = "batch"
    /\ \E exists \in BOOLEAN :
         /\ src_checked' = Some(exists)
         /\ IF exists
            THEN /\ fs' \in Trees
                 /\ pc' = "discover"
                 /\ UNCHANGED exit_code
            ELSE /\ fs' = {}
                 /\ Exit(1)
    /\ UNCHANGED <<cmd, overflow_checks, mpc_vars, init_vars, subst_vars, compile_args,
                   exe_located,
                   compiler_exists, src_read, compile_locals, compile_effects>>

\* Mutant: an empty list of files is an error.
Discover_EmptyIsError ==
    /\ pc = "discover"
    /\ \E readable \in BOOLEAN :
         /\ src_read' = Some(readable)
         /\ IF readable
            THEN \E walked \in WalkDir(<<>>, fs) :
                   /\ stfl_files' = find_stfl_files(walked)
                   /\ IF stfl_files' = <<>>
                      THEN Exit(1)
                      ELSE pc' = "loop" /\ UNCHANGED exit_code
            ELSE /\ Exit(1)
                 /\ UNCHANGED stfl_files
    /\ UNCHANGED <<cmd, overflow_checks, mpc_vars, init_vars, subst_vars, compile_args,
                   exe_located,
                   compiler_exists, src_checked, fs, idx, successful, failed,
                   compile_effects>>

\* let stfl_files = find_stfl_files("src")?;  (read_dir or an entry may fail)
\* if stfl_files.is_empty() { ...; return Ok(()); }
Discover ==
    /\ pc = "discover"
    /\ \E readable \in BOOLEAN :
         /\ src_read' = Some(readable)
         /\ IF readable
            THEN \E walked \in WalkDir(<<>>, fs) :
                   /\ stfl_files' = find_stfl_files(walked)
                   /\ IF stfl_files' = <<>>
                      THEN Exit(0)
                      ELSE pc' = "loop" /\ UNCHANGED exit_code
            ELSE /\ Exit(1)
                 /\ UNCHANGED stfl_files
    /\ UNCHANGED <<cmd, overflow_checks, mpc_vars, init_vars, subst_vars, compile_args,
                   exe_located,
                   compiler_exists, src_checked, fs, idx, successful, failed,
                   compile_effects>>

\* One iteration of `for stfl_file in &stfl_files`, up to the start of the
\* subprocess: file_output, the warning, compile_single_file's arguments.
BatchSpawn ==
    /\ pc = "loop"
    /\ idx <= Len(stfl_files)
    /\ LET n == Len(stfl_files)
           file_output == FileOutput(output, n)
           args == CompilerArgs(stfl_files[idx], file_output, binary, disassemble,
                                print_ir, opt_level)
       IN /\ warnings' = IF IsSome(output) /\ n > 1 THEN warnings + 1 ELSE warnings
          /\ \E started \in BOOLEAN :
               IF started
               THEN /\ invocations' =
                         Append(invocations, Invocation(stfl_files[idx], args, "running"))
                    /\ pc' = "wait"
                    /\ UNCHANGED exit_code
               ELSE /\ invocations' =
                         Append(invocations, Invocation(stfl_files[idx], args, "spawn_error"))
                    /\ Exit(1)
    /\ UNCHANGED <<cmd, overflow_checks, mpc_vars, init_vars, subst_vars, compile_args,
                   compile_env,
                   compile_locals, reported>>

\* Mutant: the exit code follows the last file only.
BatchExit_LastOnly ==
    /\ pc = "wait"
    /\ \E success \in BOOLEAN :
         /\ invocations' = Finish(invocations, IF success THEN "ok" ELSE "fail")
         /\ successful' = IF success THEN successful + 1 ELSE successful
         /\ failed' = IF success THEN failed ELSE failed + 1
         /\ idx' = idx + 1
         /\ IF idx' <= Len(stfl_files)
            THEN /\ pc' = "loop"
                 /\ UNCHANGED <<exit_code, reported>>
            ELSE /\ reported' = Some([successful |-> successful', failed |-> failed',
                                      total |-> Len(stfl_files)])
                 /\ Exit(IF success THEN 0 ELSE 1)
    /\ UNCHANGED <<cmd, overflow_checks, mpc_vars, init_vars, subst_vars, compile_args,
                   compile_env,
                   stfl_files, warnings>>

\* The rest of the iteration: Command::output() returns, the counters are
\* updated; after the last file the summary is printed and
\* if failed > 0 { std::process::exit(1); }, else main returns Ok(()).
BatchExit ==
    /\ pc = "wait"
    /\ \E success \in BOOLEAN :
         /\ invocations' = Finish(invocations, IF success THEN "ok" ELSE "fail")
         /\ successful' = IF success THEN successful + 1 ELSE successful
         /\ failed' = IF success THEN failed ELSE failed + 1
         /\ idx' = idx + 1
         /\ IF idx' <= Len(stfl_files)
            THEN /\ pc' = "loop"
                 /\ UNCHANGED <<exit_code, reported>>
            ELSE /\ reported' = Some([successful |-> successful', failed |-> failed',
                                      total |-> Len(stfl_files)])
                 /\ Exit(IF failed' > 0 THEN 1 ELSE 0)
    /\ UNCHANGED <<cmd, overflow_checks, mpc_vars, init_vars, subst_vars, compile_args,
                   compile_env,
                   stfl_files, warnings>>

MpcIdle ==
    /\ parties = 0 /\ threshold_arg = None /\ threshold = None
    /\ validation = NoValidation

InitCompile ==
    /\ cmd = "none"
    /\ pc = "start"
    /\ exit_code = None
    /\ overflow_checks = FALSE   \* the compile handler does no u8 arithmetic
    /\ MpcIdle
    /\ file \in {None, Some(PathString(<<B_main_stfl>>))}
    /\ output \in {None, Some(B_out_bin)}
    /\ binary \in BOOLEAN
    /\ disassemble \in BOOLEAN
    /\ print_ir \in BOOLEAN
    /\ opt_level \in 0 .. MaxOptLevel
    /\ exe_located = None /\ compiler_exists = None /\ src_checked = None
    /\ src_read = None
    /\ fs = {}
    /\ stfl_files = <<>> /\ idx = 1 /\ successful = 0 /\ failed = 0
    /\ invocations = <<>> /\ warnings = 0 /\ reported = None
    /\ InitIdle
    /\ SubstIdle

NextCompile ==
    \/ CheckOptLevel
    \/ LocateCompiler
    \/ CheckCompilerExists
    \/ SingleSpawn
    \/ SingleExit
    \/ CheckSrcDir
    \/ Discover
    \/ BatchSpawn
    \/ BatchExit

SpecCompile == InitCompile /\ [][NextCompile]_vars

\* ------------------------------------------------------------------------
\* init (src/src/init.rs)

\* StoffelConfig, with PackageConfig and MpcConfig flattened; dependencies and
\* dev_dependencies are None on every path.
StoffelConfig(name, description, authors, parties_, threshold_, field) ==
    [ name |-> name, version |-> "0.1.0", description |-> description,
      authors |-> authors, license |-> Some("MIT"),
      protocol |-> "honeybadger", parties |-> parties_, threshold |-> threshold_,
      field |-> field ]

\* get_template_description(template)
get_template_description(t) ==
    CASE t = "python" -> "Python SDK integration for MPC applications"
      [] t = "rust" -> "Rust FFI integration with StoffelVM"
      [] t = "typescript" -> "TypeScript/Node.js MPC integration"
      [] t = "solidity" -> "Solidity smart contract with MPC integration"
      [] OTHER -> "A Stoffel MPC application"

\* Mutant: the default config leaves the threshold unset.
DefaultConfig_NoThreshold(name, author) ==
    StoffelConfig(name, Some("A Stoffel MPC application"), Some(<<author>>), 5, None,
                  "bls12-381")

\* The config of initialize_default
DefaultConfig(name, author) ==
    StoffelConfig(name, Some("A Stoffel MPC application"), Some(<<author>>), 5, Some(1),
                  "bls12-381")

\* The config of initialize_from_template
TemplateConfig(name, author, t) ==
    StoffelConfig(name, Some(get_template_description(t)), Some(<<author>>), 5, Some(1),
                  "bls12-381")

\* Mutant: the interactive config stores the threshold 1.
InteractiveConfig_ThresholdOne(name, description, author, parties_, field) ==
    StoffelConfig(name, IF description = "" THEN None ELSE Some(description),
                  Some(<<author>>), parties_, Some(1), field)

\* The config of initialize_interactive
InteractiveConfig(name, description, author, parties_, field) ==
    StoffelConfig(name, IF description = "" THEN None ELSE Some(description),
                  Some(<<author>>), parties_, Some((parties_ - 1) \div 3), field)

\* The ecosystem chosen by the interactive prompt "Choose ecosystem (1-5)"
EcosystemChoice(choice) ==
    CASE choice = "1" -> "python"
      [] choice = "2" -> "rust"
      [] choice = "3" -> "typescript"
      [] choice = "4" -> "solidity"
      [] OTHER -> "stoffel"

\* ---- the manifest: toml::to_string(config)
\* A TOML document is the sequence of its key/value entries; a value is a
\* string, an integer (its decimal text) or an array of strings.
TomlString(x) == [type |-> "string", text |-> x, items |-> <<>>]
TomlInteger(n) == [type |-> "integer", text |-> ToString(n), items |-> <<>>]
TomlArray(xs) == [type |-> "array", text |-> "", items |-> xs]
TomlEntry(section, key, value) == [section |-> section, key |-> key, value |-> value]

\* A field of type Option<T>: Some(x) is written as x, None is left out.
TomlOptional(section, key, o, value) ==
    IF IsSome(o) THEN <<TomlEntry(section, key, value)>> ELSE <<>>

\* Mutant: a None field is written as an empty string.
toml_to_string_NoneAsEmpty(c) ==
    << TomlEntry("package", "name", TomlString(c.name)),
       TomlEntry("package", "version", TomlString(c.version)),
       TomlEntry("package", "description",
                 TomlString(IF IsSome(c.description) THEN Unwrap(c.description) ELSE "")),
       TomlEntry("package", "authors",
                 TomlArray(IF IsSome(c.authors) THEN Unwrap(c.authors) ELSE <<>>)),
       TomlEntry("package", "license",
                 TomlString(IF IsSome(c.license) THEN Unwrap(c.license) ELSE "")),
       TomlEntry("mpc", "protocol", TomlString(c.protocol)),
       TomlEntry("mpc", "parties", TomlInteger(c.parties)),
       TomlEntry("mpc", "threshold",
                 TomlInteger(IF IsSome(c.threshold) THEN Unwrap(c.threshold) ELSE 0)),
       TomlEntry("mpc", "field", TomlString(c.field)) >>

\* toml::to_string(config) for #[derive(Serialize)] StoffelConfig
toml_to_string(c) ==
    << TomlEntry("package", "name", TomlString(c.name)),
       TomlEntry("package", "version", TomlString(c.version)) >>
    \o TomlOptional("package", "description", c.description,
                    TomlString(IF IsSome(c.description) THEN Unwrap(c.description) ELSE ""))
    \o TomlOptional("package", "authors", c.authors,
                    TomlArray(IF IsSome(c.authors) THEN Unwrap(c.authors) ELSE <<>>))
    \o TomlOptional("package", "license", c.license,
                    TomlString(IF IsSome(c.license) THEN Unwrap(c.license) ELSE ""))
    \o << TomlEntry("mpc", "protocol", TomlString(c.protocol)),
          TomlEntry("mpc", "parties", TomlInteger(c.parties)) >>
    \o TomlOptional("mpc", "threshold", c.threshold,
                    TomlInteger(IF IsSome(c.threshold) THEN Unwrap(c.threshold) ELSE 0))
    \o << TomlEntry("mpc", "field", TomlString(c.field)) >>

\* The value of section.key in a document, if present.
TomlLookup(doc, section, key) ==
    LET hits == {i \in 1 .. Len(doc) : doc[i].section = section /\ doc[i].key = key} IN
    IF hits = {} THEN None ELSE Some(doc[CHOOSE i \in hits : TRUE].value)

\* The u8 whose decimal text is `text`.
ParseU8(text) == CHOOSE n \in U8 : ToString(n) = text

\* toml::from_str::<StoffelConfig>(manifest): a missing Option field is None.
toml_from_str(doc) ==
    LET str(section, key) == Unwrap(TomlLookup(doc, section, key)).text
        opt_str(section, key) ==
            IF IsSome(TomlLookup(doc, section, key)) THEN Some(str(section, key)) ELSE None
    IN [ name |-> str("package", "name"),
         version |-> str("package", "version"),
         description |-> opt_str("package", "description"),
         authors |-> IF IsSome(TomlLookup(doc, "package", "authors"))
                     THEN Some(Unwrap(TomlLookup(doc, "package", "authors")).items)
                     ELSE None,
         license |-> opt_str("package", "license"),
         protocol |-> str("mpc", "protocol"),
         parties |-> ParseU8(str("mpc", "parties")),
         threshold |-> IF IsSome(TomlLookup(doc, "mpc", "threshold"))
                       THEN Some(ParseU8(str("mpc", "threshold")))
                       ELSE None,
         field |-> str("mpc", "field") ]

\* ---- generated text
\* The text of a generated file is modelled by the values it shows: the
\* sequence, in textual order, of [label, val], where label says what the
\* surrounding text presents the value as and val is the string shown.
Shown(label, val) == [label |-> label, val |-> val]

\* authors.iter().map(|a| format!("\"{}\"", a)).collect::<Vec<_>>().join(", ")
RECURSIVE JoinQuoted(_)
JoinQuoted(authors) ==
    IF authors = <<>> THEN ""
    ELSE IF Len(authors) = 1 THEN "\"" \o authors[1] \o "\""
    ELSE "\"" \o authors[1] \o "\", " \o JoinQuoted(Tail(authors))

AuthorsOrUnknown(c) ==
    IF IsSome(c.authors) THEN JoinQuoted(Unwrap(c.authors)) ELSE "\"Unknown\""

\* config.package.authors.as_ref().and_then(|a| a.first()).unwrap_or("Unknown")
FirstAuthor(c) ==
    IF IsSome(c.authors) /\ Unwrap(c.authors) # <<>> THEN Unwrap(c.authors)[1] ELSE "Unknown"

\* config.package.description.as_deref().unwrap_or(default)
DescriptionOr(c, default) ==
    IF IsSome(c.description) THEN Unwrap(c.description) ELSE default

\* config.package.name.replace("-", "_"), on the project names of the model
Underscored(name) ==
    CASE name = "my-app" -> "my_app"
      [] OTHER -> name

\* str::replace(token, value) on a text: every value shown that is the
\* placeholder `token` becomes `value`.
Replace(text, token, value) ==
    [i \in 1 .. Len(text) |->
        IF text[i].val = token THEN Shown(text[i].label, value) ELSE text[i]]

\* substitute_template_vars(template_content, config)
substitute_template_vars(text, c) ==
    LET t1 == Replace(text, "{{package_name}}", c.name)
        t2 == Replace(t1, "{{package_version}}", c.version)
        t3 == Replace(t2, "{{package_description}}",
                      DescriptionOr(c, "Stoffel MPC application"))
        t4 == Replace(t3, "{{package_authors}}", AuthorsOrUnknown(c))
        t5 == Replace(t4, "{{package_name_underscore}}", Underscored(c.name))
        t6 == Replace(t5, "{{mpc_protocol}}", c.protocol)
        t7 == Replace(t6, "{{mpc_parties}}", ToString(c.parties))
    IN Replace(t7, "{{mpc_field}}", c.field)

\* The embedded templates templates/python/*: the placeholders they hold.
PythonTemplate(file_name) ==
    CASE file_name = "pyproject.toml" ->
           << Shown("name", "{{package_name}}"), Shown("version", "{{package_version}}"),
              Shown("description", "{{package_description}}"),
              Shown("authors", "{{package_authors}}") >>
      [] file_name = "main.py" ->
           << Shown("name", "{{package_name}}"),
              Shown("description", "{{package_description}}"),
              Shown("protocol", "{{mpc_protocol}}"), Shown("parties", "{{mpc_parties}}"),
              Shown("field", "{{mpc_field}}") >>
      [] file_name = "secure_computation.stfl" ->
           << Shown("name", "{{package_name}}"), Shown("protocol", "{{mpc_protocol}}"),
              Shown("parties", "{{mpc_parties}}"), Shown("field", "{{mpc_field}}") >>
      [] file_name = "test_main.py" ->
           << Shown("name_underscore", "{{package_name_underscore}}"),
              Shown("parties", "{{mpc_parties}}") >>

PythonTemplateFiles == {"main.py", "pyproject.toml", "secure_computation.stfl", "test_main.py"}

\* load_template(template_name, file_name): Some(text), or None for
\* Err("Template file not found")
load_template(template_name, file_name) ==
    IF template_name = "python" /\ file_name \in PythonTemplateFiles
    THEN Some(PythonTemplate(file_name))
    ELSE None

\* ---- file-system operations
\* A step of the scaffold: what it does, the path it acts on, the text or
\* manifest it writes, and, for a template load, the template asked for.
FsOp(op, path, text, toml, template_name) ==
    [op |-> op, path |-> path, text |-> text, toml |-> toml, template |-> template_name]
CreateDirAll(path) == FsOp("create_dir_all", path, <<>>, <<>>, "")
Write(path, text) == FsOp("write", path, text, <<>>, "")
WriteManifest(doc) == FsOp("write", "Stoffel.toml", <<>>, doc, "")
\* load_template(..)?: touches no file, but is a step that can fail
LoadTemplate(template_name, file_name) ==
    FsOp("load_template", file_name, <<>>, <<>>, template_name)

\* create_python_project(path, config)
create_python_project(c) ==
    LET content(f) == substitute_template_vars(Unwrap(load_template("python", f)), c) IN
    << CreateDirAll("src"), CreateDirAll("tests"),
       LoadTemplate("python", "pyproject.toml"),
       Write("pyproject.toml", content("pyproject.toml")),
       LoadTemplate("python", "main.py"),
       Write("src/main.py", content("main.py")),
       LoadTemplate("python", "secure_computation.stfl"),
       Write("src/secure_computation.stfl", content("secure_computation.stfl")),
       LoadTemplate("python", "test_main.py"),
       Write("tests/test_main.py", content("test_main.py")) >>

\* create_rust_project(path, config)
create_rust_project(c) ==
    << CreateDirAll("src"),
       Write("Cargo.toml",
             << Shown("name", c.name), Shown("version", c.version),
                Shown("authors", AuthorsOrUnknown(c)),
                Shown("description", DescriptionOr(c, "Stoffel MPC application")) >>),
       Write("src/main.rs",
             << Shown("name", c.name),
                Shown("description", DescriptionOr(c, "Stoffel MPC application")),
                Shown("protocol", c.protocol), Shown("parties", ToString(c.parties)),
                Shown("field", c.field),
                Shown("protocol", "honeybadger"),
                Shown("parties", ToString(c.parties)), Shown("parties", ToString(c.parties)),
                Shown("field", "bls12-381") >>) >>

\* create_typescript_project(path, config)
create_typescript_project(c) ==
    << CreateDirAll("src"),
       Write("package.json",
             << Shown("name", c.name), Shown("version", c.version),
                Shown("description", DescriptionOr(c, "Stoffel MPC application")),
                Shown("author", FirstAuthor(c)) >>),
       Write("tsconfig.json", <<>>),
       Write("src/main.ts",
             << Shown("name", c.name),
                Shown("description", DescriptionOr(c, "Stoffel MPC application")),
                Shown("protocol", c.protocol), Shown("parties", ToString(c.parties)),
                Shown("field", c.field),
                Shown("name_underscore", Underscored(c.name)),
                Shown("protocol", c.protocol), Shown("parties", ToString(c.parties)),
                Shown("field", c.field),
                Shown("protocol", c.protocol), Shown("parties", ToString(c.parties)),
                Shown("field", c.field) >>) >>

\* create_solidity_project(path, config)
create_solidity_project(c) ==
    << CreateDirAll("contracts"), CreateDirAll("scripts"), CreateDirAll("test"),
       Write("hardhat.config.js", <<>>),
       Write("package.json",
             << Shown("name", c.name), Shown("version", c.version),
                Shown("description", DescriptionOr(c, "Stoffel MPC smart contract")) >>),
       Write("contracts/StoffelMPC.sol",
             << Shown("name", c.name),
                Shown("description", DescriptionOr(c, "Stoffel MPC smart contract")),
                Shown("protocol", c.protocol), Shown("parties", ToString(c.parties)),
                Shown("field", c.field),
                Shown("protocol", c.protocol), Shown("parties", ToString(c.parties)),
                Shown("threshold",
                      ToString(IF IsSome(c.threshold) THEN Unwrap(c.threshold) ELSE 1)),
                Shown("field", c.field) >>),
       Write("scripts/deploy.js", <<>>) >>

\* create_stoffel_project(path, config)
create_stoffel_project(c) ==
    << CreateDirAll("src"), CreateDirAll("tests"),
       Write("src/main.stfl",
             << Shown("name", c.name),
                Shown("description", DescriptionOr(c, "Stoffel MPC application")),
                Shown("protocol", c.protocol), Shown("parties", ToString(c.parties)),
                Shown("field", c.field) >>),
       Write("tests/integration.stfl", <<>>) >>

\* get_template_readme(config, template)
get_template_readme(c, t) ==
    << Shown("name", c.name),
       Shown("description", DescriptionOr(c, "A Stoffel MPC application")),
       Shown("protocol", c.protocol), Shown("parties", ToString(c.parties)),
       Shown("field", c.field),
       Shown("threshold", ToString(IF IsSome(c.threshold) THEN Unwrap(c.threshold) ELSE 1)),
       Shown("ecosystem", t) >>

\* The ecosystems with a generator of their own.
Ecosystems == {"python", "rust", "typescript", "solidity", "stoffel"}

\* Mutant: a name without a generator is a template error.
create_project_structure_full_Strict(c, t) ==
    LET name == IF IsSome(t) THEN Unwrap(t) ELSE "stoffel" IN
    (CASE name = "python" -> create_python_project(c)
       [] name = "rust" -> create_rust_project(c)
       [] name = "typescript" -> create_typescript_project(c)
       [] name = "solidity" -> create_solidity_project(c)
       [] name = "stoffel" -> create_stoffel_project(c)
       [] OTHER -> <<LoadTemplate(name, "main")>>)
    \o <<Write("README.md", get_template_readme(c, name))>>

\* create_project_structure_full(path, config, template)
create_project_structure_full(c, t) ==
    LET name == IF IsSome(t) THEN Unwrap(t) ELSE "stoffel" IN
    (CASE name = "python" -> create_python_project(c)
       [] name = "rust" -> create_rust_project(c)
       [] name = "typescript" -> create_typescript_project(c)
       [] name = "solidity" -> create_solidity_project(c)
       [] OTHER -> create_stoffel_project(c))
    \o <<Write("README.md", get_template_readme(c, name))>>

\* Mutant: the library also gets the python project file when asked for python.
create_library_structure_WithTemplate(c, t) ==
    << CreateDirAll("src"),
       Write("src/lib.stfl", <<>>) >>
    \o (IF t = Some("python")
        THEN <<Write("pyproject.toml", substitute_template_vars(PythonTemplate("pyproject.toml"), c))>>
        ELSE <<>>)
    \o << Write("README.md",
                << Shown("name", c.name), Shown("name", c.name), Shown("name", c.name),
                   Shown("protocol", c.protocol), Shown("parties", ToString(c.parties)),
                   Shown("field", c.field) >>) >>

\* Mutant: the library source is written as the application entry point.
create_library_structure_MainStfl(c, t) ==
    << CreateDirAll("src"),
       Write("src/main.stfl", <<>>),
       Write("README.md",
             << Shown("name", c.name), Shown("name", c.name), Shown("name", c.name),
                Shown("protocol", c.protocol), Shown("parties", ToString(c.parties)),
                Shown("field", c.field) >>) >>

\* create_library_structure(path, config, _template)
create_library_structure(c, t) ==
    << CreateDirAll("src"),
       Write("src/lib.stfl", <<>>),
       Write("README.md",
             << Shown("name", c.name), Shown("name", c.name), Shown("name", c.name),
                Shown("protocol", c.protocol), Shown("parties", ToString(c.parties)),
                Shown("field", c.field) >>) >>

\* Mutant: the manifest is written after the variant's files.
create_project_structure_ManifestLast(c, is_lib, t) ==
    << CreateDirAll(".") >>
    \o (IF is_lib THEN create_library_structure(c, t)
        ELSE create_project_structure_full(c, t))
    \o << WriteManifest(toml_to_string(c)) >>

\* create_project_structure(path, config, is_lib, template): the operations
\* it performs, in order ("." is the project directory).
create_project_structure(c, is_lib, t) ==
    << CreateDirAll("."), WriteManifest(toml_to_string(c)) >>
    \o (IF is_lib THEN create_library_structure(c, t)
        ELSE create_project_structure_full(c, t))

\* ---- the init handler
\* Bound on the party counts entered at the prompt.
MaxPartiesInput == 7

\* --name, and the last component of the project path (None: the path has none)
NameOptions == {None, Some("my-app")}
DirNames == {None, Some("vault")}
\* get_git_user()
GitUsers == {None, Some("Alice")}
TemplateOptions == {None} \cup {Some(t) : t \in Ecosystems \cup {"foo"}}
FieldEntries == {"", "bn254"}
PartiesEntries == {"", "abc", "-1", "300", "255"} \cup {ToString(n) : n \in 0 .. MaxPartiesInput}
Answers(is_lib) ==
    [ name : {"", "my-app"}, description : {"", "Private auction"}, author : {""},
      parties : PartiesEntries, field : FieldEntries,
      choice : IF is_lib THEN {""} ELSE {"", "1", "2", "3", "4", "x"} ]

\* What the project directory holds before the run: nothing, or a manifest.
ExistingFiles == {{}, {"Stoffel.toml"}}

\* determine_project_name(options, project_path): None for Err
determine_project_name(name_option, dir_name) ==
    IF IsSome(name_option) THEN name_option ELSE dir_name

\* prompt_with_default(prompt, default), given the trimmed line entered
prompt_with_default(input, default) == IF input = "" THEN default ELSE input

\* str::parse::<u8>() succeeds on the decimal text of a u8
ParsesAsU8(text) == \E n \in U8 : ToString(n) = text

\* Mutant: four parties are accepted.
EnoughParties_Four(parties_) == parties_ >= 4

\* The negation of `if parties < 5 { return Err(..) }`
EnoughParties(parties_) == ~(parties_ < 5)

InitFail(message) ==
    /\ init_result' = Some(message)
    /\ Exit(1)
    /\ UNCHANGED <<config, plan, step, fs_ops>>

\* The call create_project_structure(&path, &config, is_lib, template)
StartScaffold(c, t) ==
    /\ config' = Some(c)
    /\ plan' = create_project_structure(c, lib, t)
    /\ pc' = "scaffold"
    /\ UNCHANGED <<exit_code, step, fs_ops, init_result>>

\* The prompts of initialize_interactive, in the order they are printed.
PromptsUpToParties == <<"Project name", "Description", "Author", "Number of parties">>
PromptsUpToField == PromptsUpToParties \o <<"Field type">>
PromptsAll(is_lib) ==
    PromptsUpToField \o (IF is_lib THEN <<>> ELSE <<"Choose ecosystem (1-5)">>)

\* initialize_project with --interactive, up to create_project_structure
InitInteractive ==
    /\ pc = "start" /\ interactive
    /\ cmd' = "init"
    /\ \E name_option \in NameOptions, dir_name \in DirNames, git_user \in GitUsers,
          a \in Answers(lib) :
         LET name == determine_project_name(name_option, dir_name)
             project_name == prompt_with_default(a.name, Unwrap(name))
             author == prompt_with_default(
                           a.author, IF IsSome(git_user) THEN Unwrap(git_user) ELSE "Unknown")
             parties_text == prompt_with_default(a.parties, ToString(5))
             field == prompt_with_default(a.field, "bls12-381")
             choice == prompt_with_default(a.choice, "5")
         IN IF name = None
            THEN /\ answers' = None /\ prompts' = <<>>
                 /\ InitFail("Could not determine project name")
            ELSE /\ answers' = Some(a)
                 /\ IF ~ParsesAsU8(parties_text)
                    THEN prompts' = PromptsUpToParties /\ InitFail("Invalid input")
                    ELSE IF ~EnoughParties(ParseU8(parties_text))
                    THEN /\ prompts' = PromptsUpToField
                         /\ InitFail("HoneyBadger protocol requires at least 5 parties")
                    ELSE /\ prompts' = PromptsAll(lib)
                         /\ StartScaffold(
                                InteractiveConfig(project_name, a.description, author,
                                                  ParseU8(parties_text), field),
                                IF lib THEN None ELSE Some(EcosystemChoice(choice)))
    /\ UNCHANGED <<overflow_checks, mpc_vars, compile_vars, subst_vars, lib, interactive,
                   template,
                   existing>>

\* Mutant: a supplied template is used even in interactive mode.
InitFromTemplate_BeforeInteractive ==
    /\ pc = "start" /\ IsSome(template)
    /\ cmd' = "init"
    /\ \E name_option \in NameOptions, dir_name \in DirNames, git_user \in GitUsers :
         LET name == determine_project_name(name_option, dir_name)
             author == IF IsSome(git_user) THEN Unwrap(git_user) ELSE "Unknown"
         IN IF name = None
            THEN InitFail("Could not determine project name")
            ELSE StartScaffold(TemplateConfig(Unwrap(name), author, Unwrap(template)),
                               template)
    /\ UNCHANGED <<overflow_checks, mpc_vars, compile_vars, subst_vars, lib, interactive,
                   template,
                   existing, prompts, answers>>

\* initialize_project with --template, up to create_project_structure
InitFromTemplate ==
    /\ pc = "start" /\ ~interactive /\ IsSome(template)
    /\ cmd' = "init"
    /\ \E name_option \in NameOptions, dir_name \in DirNames, git_user \in GitUsers :
         LET name == determine_project_name(name_option, dir_name)
             author == IF IsSome(git_user) THEN Unwrap(git_user) ELSE "Unknown"
         IN IF name = None
            THEN InitFail("Could not determine project name")
            ELSE StartScaffold(TemplateConfig(Unwrap(name), author, Unwrap(template)),
                               template)
    /\ UNCHANGED <<overflow_checks, mpc_vars, compile_vars, subst_vars, lib, interactive,
                   template,
                   existing, prompts, answers>>

\* initialize_project with neither, up to create_project_structure
InitDefault ==
    /\ pc = "start" /\ ~interactive /\ template = None
    /\ cmd' = "init"
    /\ \E name_option \in NameOptions, dir_name \in DirNames, git_user \in GitUsers :
         LET name == determine_project_name(name_option, dir_name)
             author == IF IsSome(git_user) THEN Unwrap(git_user) ELSE "Unknown"
         IN IF name = None
            THEN InitFail("Could not determine project name")
            ELSE StartScaffold(DefaultConfig(Unwrap(name), author), Some("basic"))
    /\ UNCHANGED <<overflow_checks, mpc_vars, compile_vars, subst_vars, lib, interactive,
                   template,
                   existing, prompts, answers>>

\* The error a failed step returns.
StepError(o) ==
    IF o.op = "load_template" THEN "Template file not found" ELSE "Failed: " \o o.path

\* The outcomes a step can have: a template load is decided by load_template,
\* a file-system operation by the file system.
StepOutcomes(o) ==
    IF o.op = "load_template"
    THEN {IsSome(load_template(o.template, o.path))}
    ELSE BOOLEAN

\* Mutant: a failed step removes what the earlier steps created.
ScaffoldStep_Rollback ==
    /\ pc = "scaffold" /\ step <= Len(plan)
    /\ \E ok \in StepOutcomes(plan[step]) :
         IF ok
         THEN /\ fs_ops' = IF plan[step].op = "load_template" THEN fs_ops
                           ELSE Append(fs_ops, plan[step])
              /\ step' = step + 1
              /\ IF step = Len(plan)
                 THEN init_result' = Some("Ok") /\ Exit(0)
                 ELSE UNCHANGED <<init_result, pc, exit_code>>
         ELSE /\ init_result' = Some(StepError(plan[step]))
              /\ Exit(1)
              /\ fs_ops' = <<>>
              /\ UNCHANGED step
    /\ UNCHANGED <<cmd, overflow_checks, mpc_vars, compile_vars, subst_vars, lib, interactive,
                   template,
                   existing, prompts, answers, config, plan>>

\* One `..?` step of create_project_structure and the functions it calls; the
\* last one returns Ok through initialize_project to main.
ScaffoldStep ==
    /\ pc = "scaffold" /\ step <= Len(plan)
    /\ \E ok \in StepOutcomes(plan[step]) :
         IF ok
         THEN /\ fs_ops' = IF plan[step].op = "load_template" THEN fs_ops
                           ELSE Append(fs_ops, plan[step])
              /\ step' = step + 1
              /\ IF step = Len(plan)
                 THEN init_result' = Some("Ok") /\ Exit(0)
                 ELSE UNCHANGED <<init_result, pc, exit_code>>
         ELSE /\ init_result' = Some(StepError(plan[step]))
              /\ Exit(1)
              /\ UNCHANGED <<fs_ops, step>>
    /\ UNCHANGED <<cmd, overflow_checks, mpc_vars, compile_vars, subst_vars, lib, interactive,
                   template,
                   existing, prompts, answers, config, plan>>

InitInit ==
    /\ cmd = "none"
    /\ pc = "start"
    /\ exit_code = None
    /\ overflow_checks = FALSE   \* the init handler's only u8 arithmetic cannot overflow
    /\ MpcIdle
    /\ CompileIdle
    /\ lib \in BOOLEAN
    /\ interactive \in BOOLEAN
    /\ template \in TemplateOptions
    /\ existing \in ExistingFiles
    /\ prompts = <<>>
    /\ answers = None
    /\ config = None /\ plan = <<>> /\ step = 1
    /\ fs_ops = <<>> /\ init_result = None
    /\ SubstIdle

NextInit ==
    \/ InitInteractive
    \/ InitFromTemplate
    \/ InitDefault
    \/ ScaffoldStep

SpecInit == InitInit /\ [][NextInit]_vars

\* ---- substitute_template_vars on its own
\* Template texts: the embedded ones, and one with plain text around tokens.
SubstTexts ==
    {PythonTemplate(f) : f \in PythonTemplateFiles}
    \cup {<< Shown("note", "plain text"), Shown("description", "{{package_description}}"),
             Shown("parties", "{{mpc_parties}}") >>}

\* Configs: names and descriptions as typed at the prompts, some of them
\* spelling a placeholder.
SubstConfigs ==
    { StoffelConfig(name, description, Some(<<"Alice">>), parties_,
                    Some((parties_ - 1) \div 3), field) :
        name \in {"my-app", "{{mpc_parties}}"},
        description \in {None, Some("Private auction"), Some("{{mpc_field}}"),
                         Some("{{package_name}}")},
        parties_ \in {5, 7},
        field \in {"bls12-381", "bn254"} }

\* let content = substitute_template_vars(&template, config);
Substitute ==
    /\ subst_result = None
    /\ subst_config # None
    /\ subst_result' = Some(substitute_template_vars(template_content, Unwrap(subst_config)))
    /\ UNCHANGED <<cmd, pc, exit_code, overflow_checks, mpc_vars, compile_vars, init_vars,
                   template_content, subst_config>>

InitSubst ==
    /\ cmd = "none"
    /\ pc = "start"
    /\ exit_code = None
    /\ overflow_checks = FALSE
    /\ MpcIdle
    /\ CompileIdle
    /\ InitIdle
    /\ template_content \in SubstTexts
    /\ subst_config \in {Some(c) : c \in SubstConfigs}
    /\ subst_result = None

NextSubst == Substitute

SpecSubst == InitSubst /\ [][NextSubst]_vars

\* ========================================================================
\* Properties of the parameter validator (checked under SpecMpc)

\* floor((p - 1) / 3)
FloorThirdOfOthers(p) == (p - 1) \div 3

\* ceil(a / b) for b > 0
CeilDiv(a, b) == (a + b - 1) \div b

MpcDone == pc = "done" /\ cmd \in {"dev", "test", "run"}

\* C1: for every party count p with 5 <= p <= 255, the auto-calculated
\* threshold is floor((p-1)/3) and validation of (p, that threshold) succeeds.
C1_AutoThresholdValidates ==
    (MpcDone /\ threshold_arg = None /\ parties >= 5)
        => /\ threshold = Some((parties - 1) \div 3)
           /\ validation = ValidationOk

\* C2: for every p >= 5 and every threshold t, validation fails iff
\* t >= (p+2)/3 (integer division), and the failure reports the maximum valid
\* threshold (p+2)/3 - 1; for p = 5, t = 1 is accepted and t = 2 is rejected.
C2_ThresholdRejection ==
    (MpcDone /\ IsSome(threshold_arg) /\ parties >= 5)
        => LET t == Unwrap(threshold_arg)
               lim == (parties + 2) \div 3
           IN /\ (validation # ValidationOk) <=> (t >= lim)
              /\ (validation # ValidationOk) => validation = InvalidThreshold(lim - 1)

\* C3: for every p < 5 and every threshold, validation fails with the
\* party-count error, never with the threshold error.
C3_SmallPartyCountRejected ==
    (MpcDone /\ parties < 5) => validation = InvalidPartyCount

C3_Witness ==
    /\ MpcDone
    /\ parties = 4
    /\ threshold_arg = Some(2)
    /\ validation = InvalidPartyCount
    /\ exit_code = Some(1)

\* C4: every accepted (parties, threshold) pair has parties >= 5 and
\* parties >= 3 * threshold + 1.
C4_AcceptedPairsAreByzantineSafe ==
    (MpcDone /\ validation = ValidationOk)
        => /\ parties >= 5
           /\ parties >= 3 * Unwrap(threshold) + 1

C4_Witness ==
    /\ MpcDone
    /\ parties = 7
    /\ threshold_arg = Some(2)
    /\ validation = ValidationOk
    /\ exit_code = Some(0)

\* ========================================================================
\* Properties of the compile command (checked under SpecCompile)

\* A batch run whose discovery found at least one file.
BatchStarted == cmd = "compile" /\ file = None /\ stfl_files # <<>>

\* N: the number of .stfl files below src/.
DiscoveredCount == Cardinality(StflFilesOf(fs))

\* The attempts that did not end in a zero exit status.
FailedAttempts ==
    {i \in 1 .. Len(invocations) : invocations[i].status \in {"fail", "spawn_error"}}

HasOutputArg(args) == \E k \in 1 .. Len(args) : args[k].tag = "-o"

\* C5: in a batch compile that discovers N files, the reported successful
\* count plus the reported failed count equals N, the reported total, and the
\* exit code is non-zero iff at least one file failed.
C5_BatchSummaryCounts ==
    /\ IsSome(reported) =>
         LET r == Unwrap(reported) IN
         /\ r.successful + r.failed = DiscoveredCount
         /\ r.total = DiscoveredCount
         /\ r.failed = Cardinality(FailedAttempts)
         /\ pc = "done"
    /\ (BatchStarted /\ pc = "done") =>
         ((exit_code # Some(0)) <=> (FailedAttempts # {}))

C5_Witness ==
    /\ BatchStarted
    /\ pc = "done"
    /\ reported = Some([successful |-> 2, failed |-> 1, total |-> 3])
    /\ exit_code = Some(1)

\* C6: in batch mode no outcome of an earlier file (a failing compilation, or
\* a compiler invocation that cannot be executed) short-circuits the batch:
\* every discovered file has been attempted when the process exits non-zero.
C6_NoShortCircuit ==
    (BatchStarted /\ pc = "done" /\ exit_code # Some(0))
        => Len(invocations) = DiscoveredCount

\* C7: a caller-supplied output path is passed to the compiler, as -o <path>
\* unchanged, exactly when one file is compiled (single-file mode, or a batch
\* of exactly one file); in a batch of two or more files no invocation
\* receives -o and a warning is emitted.
C7_OutputPathOnlyForOneFile ==
    \A i \in 1 .. Len(invocations) :
        LET a == invocations[i].args
            one == IsSome(file) \/ DiscoveredCount = 1
        IN /\ IF IsSome(output) /\ one
              THEN /\ Len(a) >= 3
                   /\ a[2] = ArgFlag("-o")
                   /\ a[3] = ArgPath(Unwrap(output))
              ELSE ~HasOutputArg(a)
           /\ (warnings > 0) <=> (IsSome(output) /\ ~one)

C7_Witness ==
    /\ BatchStarted
    /\ DiscoveredCount = 1
    /\ output = Some(B_out_bin)
    /\ Len(invocations) = 1
    /\ HasOutputArg(invocations[1].args)
    /\ warnings = 0

\* C8: a compile request with optimization level > 3 ends with exit code 1
\* before the compiler binary is looked up, before any source discovery and
\* before any subprocess is spawned, in single-file and in batch mode.
C8_InvalidOptLevelRejectedFirst ==
    (cmd = "compile" /\ opt_level > 3)
        => /\ pc = "done"
           /\ exit_code = Some(1)
           /\ exe_located = None
           /\ compiler_exists = None
           /\ src_checked = None
           /\ invocations = <<>>

C8_Witness ==
    /\ cmd = "compile"
    /\ opt_level = 4
    /\ file = None
    /\ pc = "done"
    /\ exit_code = Some(1)

\* C9: in every compile run the existence of the compiler binary is checked
\* before any compilation attempt; when it is absent the run exits with code 1
\* and no subprocess is ever spawned.
C9_CompilerCheckedBeforeSpawn ==
    /\ (invocations # <<>> \/ src_checked # None) => compiler_exists = Some(TRUE)
    /\ compiler_exists = Some(FALSE) =>
         /\ pc = "done"
         /\ exit_code = Some(1)
         /\ invocations = <<>>

C9_Witness ==
    /\ cmd = "compile"
    /\ compiler_exists = Some(FALSE)
    /\ pc = "done"
    /\ exit_code = Some(1)
    /\ invocations = <<>>

IsAscending(q) == \A i \in 1 .. Len(q) - 1 : StrLess(q[i], q[i + 1])

\* The batch invokes the compiler in ascending order of the paths, on files
\* below src/ only, each at most once, one process at a time.
BatchOrderedAndSequential ==
    (cmd = "compile" /\ file = None) =>
        /\ IsAscending([i \in 1 .. Len(invocations) |-> invocations[i].src])
        /\ \A i \in 1 .. Len(invocations) :
             /\ invocations[i].src \in {PathString(f) : f \in StflFilesOf(fs)}
             /\ i < Len(invocations) => invocations[i].status # "running"

\* C10: batch compilation invokes the compiler once per discovered .stfl file
\* under src/, in ascending lexicographic order of the paths whatever the
\* enumeration order, each invocation starting after the previous one ended.
C10_OncePerFileInOrder ==
    /\ BatchOrderedAndSequential
    /\ (BatchStarted /\ pc = "done") => Len(invocations) = DiscoveredCount

\* 1 when the condition holds, 0 otherwise.
Count(b) == IF b THEN 1 ELSE 0

\* C11: the argument list handed to the compiler is the source file, then in
\* this order -o <output> iff an output path is in effect, --binary iff the
\* binary flag is set, --disassemble iff the disassemble flag is set,
\* --print-ir iff the print-ir flag is set, -O<level> iff the level is 1, 2 or
\* 3; nothing else is passed.
C11_ArgumentList ==
    \A i \in 1 .. Len(invocations) :
        LET a == invocations[i].args
            out == IF IsSome(file) \/ DiscoveredCount = 1 THEN output ELSE None
            n0 == 1
            n1 == n0 + 2 * Count(IsSome(out))
            n2 == n1 + Count(binary)
            n3 == n2 + Count(disassemble)
            n4 == n3 + Count(print_ir)
            n5 == n4 + Count(opt_level \in 1 .. 3)
        IN /\ Len(a) = n5
           /\ a[1] = ArgPath(invocations[i].src)
           /\ IsSome(out) => a[n1 - 1] = ArgFlag("-o") /\ a[n1] = ArgPath(Unwrap(out))
           /\ binary => a[n2] = ArgFlag("--binary")
           /\ disassemble => a[n3] = ArgFlag("--disassemble")
           /\ print_ir => a[n4] = ArgFlag("--print-ir")
           /\ opt_level \in 1 .. 3 => a[n5] = ArgOpt(opt_level)

C11_Witness ==
    /\ Len(invocations) = 1
    /\ output # None /\ binary /\ disassemble /\ print_ir /\ opt_level = 2
    /\ invocations[1].args =
         << ArgPath(invocations[1].src), ArgFlag("-o"), ArgPath(B_out_bin),
            ArgFlag("--binary"), ArgFlag("--disassemble"), ArgFlag("--print-ir"),
            ArgOpt(2) >>

\* C12 as stated: in single-file mode exactly one subprocess is spawned, and
\* the tool exits 0 iff that subprocess's exit status is zero, with 1 otherwise.
C12_ExactlyOneSubprocess ==
    (cmd = "compile" /\ IsSome(file) /\ pc = "done" /\ compiler_exists = Some(TRUE)) =>
        /\ Len(invocations) = 1
        /\ invocations[1].status \in {"ok", "fail"}
        /\ exit_code = IF invocations[1].status = "ok" THEN Some(0) ELSE Some(1)

\* C12 (amended): in single-file mode exactly one attempt to start the
\* compiler is made; the tool exits 0 iff the subprocess started and its exit
\* status is zero, with 1 otherwise (also when it could not be started).
C12_SingleFileResult ==
    (cmd = "compile" /\ IsSome(file)) =>
        /\ Len(invocations) <= 1
        /\ pc \in {"single", "single_wait"} => exit_code = None
        /\ pc = "single_wait" => Len(invocations) = 1
        /\ (pc = "done" /\ compiler_exists = Some(TRUE)) =>
             /\ Len(invocations) = 1
             /\ invocations[1].src = Unwrap(file)
             /\ invocations[1].status # "running"
             /\ exit_code = IF invocations[1].status = "ok" THEN Some(0) ELSE Some(1)

C12_Witness ==
    /\ cmd = "compile" /\ IsSome(file)
    /\ pc = "done"
    /\ Len(invocations) = 1
    /\ invocations[1].status = "ok"
    /\ exit_code = Some(0)


\* ========================================================================
\* Properties of project initialization (checked under SpecInit)
\* ========================================================================
InitOk == init_result = Some("Ok")
InitErr == IsSome(init_result) /\ ~InitOk

\* The file-system operations among the steps of a plan.
FsOpsOf(steps) == SelectSeq(steps, LAMBDA o : o.op # "load_template")

\* The paths of the files a sequence of operations writes.
WrittenFiles(ops) == {ops[i].path : i \in {j \in 1 .. Len(ops) : ops[j].op = "write"}}

\* The operations of fs_ops that wrote the file `path`.
WritesOf(path) == {i \in 1 .. Len(fs_ops) : fs_ops[i].op = "write" /\ fs_ops[i].path = path}
ManifestWritten == WritesOf("Stoffel.toml") # {}
Manifest == fs_ops[CHOOSE i \in WritesOf("Stoffel.toml") : TRUE].toml

\* The party count the interactive run read, as text.
PartiesText == prompt_with_default(Unwrap(answers).parties, ToString(5))
TooFewPartiesError == Some("HoneyBadger protocol requires at least 5 parties")
NothingCreated == fs_ops = <<>> /\ config = None

\* C13 as stated: every interactive run whose party entry is rejected (a
\* count below 5, or an entry that fails in any other way) returns the
\* "requires at least 5 parties" error, with nothing created.
C13_RejectionIsTooFewParties ==
    (interactive /\ IsSome(answers) /\ pc = "done" /\ config = None)
        => (init_result = TooFewPartiesError /\ NothingCreated)

\* C13 (amended): an interactive run whose party entry parses to a count below
\* 5 returns the "requires at least 5 parties" error, one whose entry does not
\* parse as a u8 returns the "Invalid input" error; either way the run ends
\* with exit code 1 and no directory or file created.
C13_PartyEntryRejectedBeforeScaffold ==
    (interactive /\ IsSome(answers)) =>
        /\ (ParsesAsU8(PartiesText) /\ ParseU8(PartiesText) < 5)
              => (init_result = TooFewPartiesError /\ NothingCreated
                  /\ pc = "done" /\ exit_code = Some(1))
        /\ ~ParsesAsU8(PartiesText)
              => (init_result = Some("Invalid input") /\ NothingCreated
                  /\ pc = "done" /\ exit_code = Some(1))

C13_Witness ==
    /\ interactive /\ IsSome(answers) /\ Unwrap(answers).parties = "4"
    /\ init_result = TooFewPartiesError /\ fs_ops = <<>>

\* C14: a finished init with no flags has written a manifest with version
\* 0.1.0, protocol honeybadger, parties 5, threshold 1 and field bls12-381,
\* and the files src/main.stfl, tests/integration.stfl and README.md.
C14_DefaultInit ==
    (~interactive /\ template = None /\ ~lib /\ InitOk) =>
        /\ ManifestWritten
        /\ TomlLookup(Manifest, "package", "version") = Some(TomlString("0.1.0"))
        /\ TomlLookup(Manifest, "mpc", "protocol") = Some(TomlString("honeybadger"))
        /\ TomlLookup(Manifest, "mpc", "parties") = Some(TomlInteger(5))
        /\ TomlLookup(Manifest, "mpc", "threshold") = Some(TomlInteger(1))
        /\ TomlLookup(Manifest, "mpc", "field") = Some(TomlString("bls12-381"))
        /\ WrittenFiles(fs_ops) =
               {"Stoffel.toml", "src/main.stfl", "tests/integration.stfl", "README.md"}

C14_Witness ==
    ~interactive /\ template = None /\ ~lib /\ InitOk /\ ManifestWritten

\* C15: at every point of the scaffold exactly the operations before the
\* current step have taken effect, in order; when a step fails the run ends at
\* once with that step's error and exit code 1, the earlier operations still in
\* effect and none of the later ones performed.
C15_NoRollbackNoContinuation ==
    IsSome(config) =>
        /\ step <= Len(plan) + 1
        /\ fs_ops = FsOpsOf(SubSeq(plan, 1, step - 1))
        /\ InitErr => /\ pc = "done" /\ exit_code = Some(1)
                      /\ step <= Len(plan)
                      /\ init_result = Some(StepError(plan[step]))

C15_Witness ==
    /\ IsSome(config) /\ InitErr /\ plan[step].op = "write"
    /\ WrittenFiles(fs_ops) # {} /\ Len(fs_ops) >= 3
    /\ step < Len(plan)

\* The files the other variant (library for an application run, application
\* with template option t for a library run) writes for the same config.
OtherVariantFiles(t) ==
    WrittenFiles(FsOpsOf(create_project_structure(Unwrap(config), ~lib, t)))
AppTemplates == {Some(t) : t \in Ecosystems}

\* C16 as stated: the files written by a finished init share no file with the
\* files the other variant writes, whatever the ecosystem.
C16_VariantsDisjoint ==
    InitOk => \A t \in AppTemplates : WrittenFiles(fs_ops) \cap OtherVariantFiles(t) = {}

\* C16 (amended): the files written by a library init and by an application
\* init (any ecosystem) have exactly Stoffel.toml and README.md in common.
C16_VariantsShareManifestAndReadme ==
    InitOk => \A t \in AppTemplates :
                  WrittenFiles(fs_ops) \cap OtherVariantFiles(t) = {"Stoffel.toml", "README.md"}

C16_Witness ==
    InitOk /\ lib /\ "src/lib.stfl" \in WrittenFiles(fs_ops)


\* An application run, not interactive, asking for a template name that has
\* no generator of its own.
UnknownTemplateRun ==
    ~interactive /\ ~lib /\ IsSome(template) /\ Unwrap(template) \notin Ecosystems
TemplateError == Some("Template file not found")

\* What each step of a plan does, and to which path.
Shape(steps) == [i \in 1 .. Len(steps) |-> <<steps[i].op, steps[i].path>>]

\* C17 as stated: an application init asking for a template name without a
\* generator never succeeds, and once it has got as far as the scaffold it ends
\* with a template error.
C17_UnknownTemplateFails ==
    UnknownTemplateRun =>
        /\ ~InitOk
        /\ (pc = "done" /\ IsSome(config)) => init_result = TemplateError

\* C17 (amended): an application init asking for a template name without a
\* generator takes the same steps as the stoffel ecosystem, none of them a
\* template load, never returns a template error, and its README names the
\* template asked for.
C17_UnknownTemplateFallsBackToStoffel ==
    (UnknownTemplateRun /\ IsSome(config)) =>
        /\ Shape(plan) = Shape(create_project_structure(Unwrap(config), FALSE, Some("stoffel")))
        /\ \A i \in 1 .. Len(plan) : plan[i].op # "load_template"
        /\ init_result # TemplateError
        /\ InitOk =>
             /\ WrittenFiles(fs_ops) =
                    {"Stoffel.toml", "src/main.stfl", "tests/integration.stfl", "README.md"}
             /\ \E i \in WritesOf("README.md") : \E k \in 1 .. Len(fs_ops[i].text) :
                    fs_ops[i].text[k] = Shown("ecosystem", Unwrap(template))

C17_Witness == UnknownTemplateRun /\ InitOk /\ "src/main.stfl" \in WrittenFiles(fs_ops)

\* The value of the config that text labelled `label` has to show.
ConfigValue(label) ==
    CASE label = "name" -> Unwrap(config).name
      [] label = "version" -> Unwrap(config).version
      [] label = "protocol" -> Unwrap(config).protocol
      [] label = "parties" -> ToString(Unwrap(config).parties)
      [] label = "field" -> Unwrap(config).field

\* C18: every written file that shows the project name, version, protocol,
\* party count or field shows the value of the config, and the manifest holds
\* the config's values too.
C18_FilesShowConfigValues ==
    IsSome(config) =>
        /\ \A i \in 1 .. Len(fs_ops) : \A k \in 1 .. Len(fs_ops[i].text) :
              fs_ops[i].text[k].label \in {"name", "version", "protocol", "parties", "field"}
                  => fs_ops[i].text[k].val = ConfigValue(fs_ops[i].text[k].label)
        /\ ManifestWritten => Manifest = toml_to_string(Unwrap(config))

\* The descriptions shown by the files written so far.
DescriptionsShown ==
    UNION { {fs_ops[i].text[k].val :
                k \in {n \in 1 .. Len(fs_ops[i].text) : fs_ops[i].text[n].label = "description"}} :
            i \in 1 .. Len(fs_ops) }
AuthorsShown ==
    UNION { {fs_ops[i].text[k].val :
                k \in {n \in 1 .. Len(fs_ops[i].text) :
                          fs_ops[i].text[n].label \in {"authors", "author"}}} :
            i \in 1 .. Len(fs_ops) }

\* C19: when the config has no description, the files written show one and
\* the same description, and it is not empty; likewise for absent authors.
C19_OneCanonicalDefault ==
    IsSome(config) =>
        /\ Unwrap(config).description = None
              => ("" \notin DescriptionsShown /\ Cardinality(DescriptionsShown) <= 1)
        /\ Unwrap(config).authors = None
              => ("" \notin AuthorsShown /\ Cardinality(AuthorsShown) <= 1)

Overwritten == WrittenFiles(fs_ops) \cap existing

\* C21: an init whose project directory already holds a Stoffel.toml fails,
\* and no existing file is replaced.
C21_ExistingManifestRefused ==
    "Stoffel.toml" \in existing =>
        /\ pc = "done" => InitErr
        /\ Overwritten = {}



LibraryShape ==
    << <<"create_dir_all", ".">>, <<"write", "Stoffel.toml">>, <<"create_dir_all", "src">>,
       <<"write", "src/lib.stfl">>, <<"write", "README.md">> >>

\* C25: a library init takes the same steps whatever template is requested,
\* a finished one has written exactly Stoffel.toml, src/lib.stfl and
\* README.md, and an interactive one never prints the ecosystem prompt.
C25_LibraryIgnoresTemplate ==
    lib =>
        /\ \A i \in 1 .. Len(prompts) : prompts[i] # "Choose ecosystem (1-5)"
        /\ IsSome(config) =>
              /\ Shape(plan) = LibraryShape
              /\ plan = create_project_structure(Unwrap(config), TRUE, None)
        /\ InitOk => WrittenFiles(fs_ops) = {"Stoffel.toml", "src/lib.stfl", "README.md"}

C25_Witness ==
    lib /\ ~interactive /\ template = Some("python") /\ InitOk

\* The thresholds shown by the files written so far.
ThresholdsShown ==
    UNION { {fs_ops[i].text[k].val :
                k \in {n \in 1 .. Len(fs_ops[i].text) : fs_ops[i].text[n].label = "threshold"}} :
            i \in 1 .. Len(fs_ops) }

\* C26: every config handed to the scaffold has protocol honeybadger, at
\* least 5 parties and a threshold that is set and equals
\* floor((parties - 1) / 3); the files that show a threshold show that one.
C26_ScaffoldConfigIsValid ==
    IsSome(config) =>
        /\ Unwrap(config).protocol = "honeybadger"
        /\ Unwrap(config).parties >= 5
        /\ Unwrap(config).threshold = Some(FloorThirdOfOthers(Unwrap(config).parties))
        /\ ThresholdsShown \subseteq {ToString(FloorThirdOfOthers(Unwrap(config).parties))}

C26_Witness ==
    /\ IsSome(config) /\ InitOk /\ Unwrap(config).parties = 7
    /\ Unwrap(config).threshold = Some(2) /\ ThresholdsShown = {"2"}

\* C27: for every party count p entered, interactive init accepts p iff
\* validate_mpc_params(p, calculate_threshold(p), honeybadger) succeeds, and
\* the threshold it stores is calculate_threshold(p).
C27_InteractiveAgreesWithValidator ==
    (interactive /\ IsSome(answers) /\ ParsesAsU8(PartiesText)) =>
        LET p == ParseU8(PartiesText)
            t == calculate_threshold(p, "Honeybadger")
        IN /\ \A checks \in BOOLEAN :
                IsSome(config) <=>
                    validate_mpc_params(p, t, "Honeybadger", checks) = ValidationOk
           /\ IsSome(config) => Unwrap(config).threshold = Some(t)

\* The template create_project_structure is called with.
TemplatePassed ==
    IF interactive
    THEN (IF lib THEN None
          ELSE Some(EcosystemChoice(prompt_with_default(Unwrap(answers).choice, "5"))))
    ELSE IF IsSome(template) THEN template
    ELSE Some("basic")

\* The config the mode in effect builds for the name and author in config.
ConfigOfMode ==
    LET name == Unwrap(config).name
        author == Unwrap(Unwrap(config).authors)[1]
    IN IF interactive
       THEN InteractiveConfig(name, Unwrap(answers).description, author,
                              ParseU8(PartiesText),
                              prompt_with_default(Unwrap(answers).field, "bls12-381"))
       ELSE IF IsSome(template) THEN TemplateConfig(name, author, Unwrap(template))
       ELSE DefaultConfig(name, author)

\* C30: the config is the interactive one in interactive mode (whatever
\* -t says), else the template's when a template is supplied, else the
\* default; once built it never changes, nor do the steps derived from it; the
\* manifest is written at most once and holds that config, and every file
\* written is the one generated from it.
C30_OneConfigByPrecedence ==
    /\ [](IsSome(config) =>
            /\ interactive => IsSome(answers)
            /\ ~interactive => answers = None
            /\ config = Some(ConfigOfMode)
            /\ plan = create_project_structure(Unwrap(config), lib, TemplatePassed)
            /\ fs_ops = FsOpsOf(SubSeq(plan, 1, step - 1))
            /\ Cardinality(WritesOf("Stoffel.toml")) <= 1
            /\ ManifestWritten => Manifest = toml_to_string(Unwrap(config)))
    /\ [][IsSome(config) => (config' = config /\ plan' = plan)]_vars

C30_Witness ==
    interactive /\ IsSome(template) /\ ~lib /\ InitOk /\ Unwrap(template) = "python"
        /\ "src/main.rs" \in WrittenFiles(fs_ops)

\* ========================================================================
\* Further properties of the parameter validator (checked under SpecMpc)
\* ========================================================================
\* C22 as stated: the threshold handed to validation is the supplied one, or
\* floor((parties - 1) / 3) when none is supplied, for every party count.
C22_ThresholdIsSuppliedOrFloor ==
    MpcDone =>
        threshold = Some(IF IsSome(threshold_arg) THEN Unwrap(threshold_arg)
                         ELSE FloorThirdOfOthers(parties))

\* C22 (amended): the threshold handed to validation is the supplied one,
\* unchanged; when none is supplied it is floor((parties - 1) / 3) for
\* parties >= 5 and the constant 1 for parties < 5.
C22_ThresholdIsSuppliedOrCalculated ==
    MpcDone =>
        threshold = Some(IF IsSome(threshold_arg) THEN Unwrap(threshold_arg)
                         ELSE IF parties >= 5 THEN FloorThirdOfOthers(parties)
                         ELSE 1)

C22_Witness ==
    MpcDone /\ threshold_arg = None /\ parties = 2 /\ threshold = Some(1)

\* C23 as stated: for parties >= 5 the validator accepts a threshold t iff
\* t < ceil((parties + 1) / 3).
C23_AcceptsBelowCeilOfSuccessor ==
    (MpcDone /\ parties >= 5) =>
        (validation = ValidationOk <=> Unwrap(threshold) < CeilDiv(parties + 1, 3))

\* C23 (amended): for parties >= 5 whose sum parties + 2 fits a u8 the
\* validator accepts a threshold t iff t < (parties + 2) / 3, which is
\* t < ceil(parties / 3), i.e. 3 t < parties; for parties 254 and 255 it
\* accepts no threshold.
C23_AcceptsBelowCeilOfThird ==
    (MpcDone /\ parties >= 5) =>
        IF parties + 2 < U8Modulus
        THEN /\ validation = ValidationOk <=> Unwrap(threshold) < (parties + 2) \div 3
             /\ (parties + 2) \div 3 = CeilDiv(parties, 3)
             /\ validation = ValidationOk <=> 3 * Unwrap(threshold) < parties
        ELSE validation # ValidationOk

C23_Witness ==
    MpcDone /\ parties = 6 /\ threshold = Some(2) /\ validation.kind = "InvalidThreshold"


\* ========================================================================
\* Further properties of the compile command (checked under SpecCompile)
\* ========================================================================
BatchEnded == cmd = "compile" /\ file = None /\ pc = "done" /\ IsSome(src_checked)
NoSpawnNoSummary == invocations = <<>> /\ reported = None

\* C29 as stated: a batch run whose src/ holds no .stfl file ends with exit
\* code 0, one whose src/ does not exist with exit code 1; neither spawns a
\* subprocess or prints a summary, and both come after a passed compiler check.
C29_EmptyOrMissingSrc ==
    BatchEnded =>
        /\ compiler_exists = Some(TRUE)
        /\ src_checked = Some(FALSE) => (exit_code = Some(1) /\ NoSpawnNoSummary)
        /\ (src_checked = Some(TRUE) /\ StflFilesOf(fs) = {})
              => (exit_code = Some(0) /\ NoSpawnNoSummary)

\* C29 (amended): a batch run whose src/ holds no .stfl file ends with exit
\* code 0 when the directory tree is read without error and with exit code 1
\* when reading it fails; one whose src/ does not exist ends with exit code 1;
\* none of them spawns a subprocess or prints a summary, and all come after a
\* passed compiler check.
C29_EmptyUnreadableOrMissingSrc ==
    BatchEnded =>
        /\ compiler_exists = Some(TRUE)
        /\ src_checked = Some(FALSE) => (exit_code = Some(1) /\ NoSpawnNoSummary)
        /\ (src_checked = Some(TRUE) /\ StflFilesOf(fs) = {})
              => /\ NoSpawnNoSummary
                 /\ src_read = Some(TRUE) => exit_code = Some(0)
                 /\ src_read = Some(FALSE) => exit_code = Some(1)

C29_Witness ==
    /\ BatchEnded /\ src_checked = Some(TRUE) /\ StflFilesOf(fs) = {} /\ fs # {}
    /\ src_read = Some(TRUE) /\ exit_code = Some(0)


\* ========================================================================
\* Properties of substitute_template_vars (checked under SpecSubst)
\* ========================================================================
Tokens ==
    {"{{package_name}}", "{{package_version}}", "{{package_description}}",
     "{{package_authors}}", "{{package_name_underscore}}", "{{mpc_protocol}}",
     "{{mpc_parties}}", "{{mpc_field}}"}

\* The value that stands for a token.
TokenValue(token, c) ==
    CASE token = "{{package_name}}" -> c.name
      [] token = "{{package_version}}" -> c.version
      [] token = "{{package_description}}" -> DescriptionOr(c, "Stoffel MPC application")
      [] token = "{{package_authors}}" -> AuthorsOrUnknown(c)
      [] token = "{{package_name_underscore}}" -> Underscored(c.name)
      [] token = "{{mpc_protocol}}" -> c.protocol
      [] token = "{{mpc_parties}}" -> ToString(c.parties)
      [] token = "{{mpc_field}}" -> c.field

\* The template with every token occurrence replaced by its value, at once.
SimultaneousSubstitution(text, c) ==
    [i \in 1 .. Len(text) |->
        IF text[i].val \in Tokens
        THEN Shown(text[i].label, TokenValue(text[i].val, c))
        ELSE text[i]]

\* C28: the text substitute_template_vars returns is the template with each
\* token occurrence replaced by its config value, the inserted values
\* appearing as they are in the config.
C28_SubstitutionIsSimultaneous ==
    IsSome(subst_result) =>
        Unwrap(subst_result) = SimultaneousSubstitution(template_content, Unwrap(subst_config))

====
